---- MODULE Spec2Model ----
(***************************************************************************)
(* Model of MaterialPipeline (marigold/albedo_pipeline.py): the orchestrator*)
(* __call__, the single-pass predictor single_infer with its lazily cached  *)
(* empty-text embedding, the ensembler _ensemble_brdfs, the resolution      *)
(* normalizer resize_max_res and the batch-size heuristic _find_batch_size. *)
(* The neural networks, the scheduler and the image library are external:   *)
(* their outputs are inputs of the model.                                   *)
(***************************************************************************)
EXTENDS Integers, Sequences, FiniteSets, TLC

\* ------------------------------------------------------------------------
\* Bounds of the model (not program constants)
\* ------------------------------------------------------------------------
MaxEdge == 16          \* resize_max_res: widths, heights and max edges 1..MaxEdge
MaxEnsemble == 42      \* _find_batch_size: ensemble sizes 1..MaxEnsemble
MaxCallEnsemble == 3   \* __call__: ensemble_size argument up to this value
MaxStack == 4          \* _ensemble_brdfs: stacks of up to MaxStack predictions
MaxCalls == 2          \* number of calls made on one pipeline object
ColorDen == 16         \* colorize: elements are multiples of 1/ColorDen ...
MaxColorNum == 24      \* ... from -MaxColorNum/ColorDen to MaxColorNum/ColorDen

\* ------------------------------------------------------------------------
\* IEEE-754 binary64 arithmetic of the Python expressions in resize_max_res
\* (int / int, int * float, int(float)).  A positive float is
\* [e |-> exponent of the leading bit, m |-> Prec mantissa bits, MSB first].
\* ------------------------------------------------------------------------
Prec == 53

RECURSIVE Pow2(_)
Pow2(n) == IF n = 0 THEN 1 ELSE 2 * Pow2(n - 1)

\* the arithmetic below works on 8-bit digits
LimbBits == 2 * 2 * 2
Limb == Pow2(LimbBits)

RECURSIVE BitsToInt(_, _)
\* value of the first n bits of b
BitsToInt(b, n) == IF n = 0 THEN 0 ELSE 2 * BitsToInt(b, n - 1) + b[n]

\* the bits of a sequence of 8-bit digits, MSB first
LimbsToBits(limbs) ==
    [i \in 1..(LimbBits * Len(limbs)) |->
        (limbs[((i - 1) \div LimbBits) + 1]
            \div Pow2(LimbBits - 1 - ((i - 1) % LimbBits))) % 2]

\* the 8-bit digits of a bit sequence whose length is a multiple of 8
BitsToLimbs(b) ==
    [k \in 1..(Len(b) \div LimbBits) |->
        BitsToInt(SubSeq(b, LimbBits * (k - 1) + 1, LimbBits * k), LimbBits)]

Zeros(n) == [i \in 1..n |-> 0]

StripZeros(b) ==
    LET k == CHOOSE i \in 1..Len(b) : b[i] = 1 /\ \A j \in 1..(i - 1) : b[j] = 0
    IN SubSeq(b, k, Len(b))

AllOnes(b) == \A i \in 1..Len(b) : b[i] = 1

\* mantissa + 1 ulp, for a mantissa that is not all ones
IncBits(b) ==
    LET k == CHOOSE i \in 1..Len(b) : b[i] = 0 /\ \A j \in (i + 1)..Len(b) : b[j] = 1
    IN [i \in 1..Len(b) |-> IF i < k THEN b[i] ELSE IF i = k THEN 1 ELSE 0]

\* round-to-nearest, ties-to-even, of the exact value 1.bits * 2^e to Prec bits
\* (sticky: the exact value has nonzero bits beyond those given)
RoundNearestEven(bits, sticky, e) ==
    IF Len(bits) <= Prec
    THEN [e |-> e, m |-> bits \o Zeros(Prec - Len(bits))]
    ELSE LET mant == SubSeq(bits, 1, Prec)
             guard == bits[Prec + 1]
             rest == \E i \in (Prec + 2)..Len(bits) : bits[i] = 1
             up == guard = 1 /\ (sticky \/ rest \/ mant[Prec] = 1)
         IN IF ~up THEN [e |-> e, m |-> mant]
            ELSE IF AllOnes(mant)
                 THEN [e |-> e + 1, m |-> <<1>> \o Zeros(Prec - 1)]
                 ELSE [e |-> e, m |-> IncBits(mant)]

RECURSIVE ExpUp(_, _, _)
ExpUp(a, b, e) == IF 2 * b <= a THEN ExpUp(a, 2 * b, e + 1) ELSE e

RECURSIVE ExpDown(_, _, _)
ExpDown(a, b, k) == IF a < b THEN ExpDown(2 * a, b, k + 1) ELSE k

RECURSIVE DivStep(_, _, _, _)
\* n more 8-bit quotient digits of r/d (r < d); result <<digits, remainder>>
DivStep(r, d, n, acc) ==
    IF n = 0 THEN <<acc, r>>
    ELSE DivStep((r * Limb) % d, d, n - 1, acc \o <<(r * Limb) \div d>>)

\* a / b for positive integers: the correctly rounded quotient
FDiv(a, b) ==
    LET e == IF a >= b THEN ExpUp(a, b, 0) ELSE 0 - ExpDown(a, b, 0)
        A == IF e < 0 THEN a * Pow2(0 - e) ELSE a
        B == IF e > 0 THEN b * Pow2(e) ELSE b
        q == DivStep(A - B, B, (Prec \div LimbBits) + 1, <<>>)
    IN RoundNearestEven(<<1>> \o LimbsToBits(q[1]), q[2] # 0, e)

RECURSIVE MulStep(_, _, _, _, _)
\* exact product of 8-bit digits limbs[1..k] and w, plus carry; digits MSB first
MulStep(limbs, k, w, carry, acc) ==
    IF k = 0 THEN LimbsToBits(<<carry \div (Limb * Limb), (carry \div Limb) % Limb,
                               carry % Limb>>) \o LimbsToBits(acc)
    ELSE MulStep(limbs, k - 1, w, (limbs[k] * w + carry) \div Limb,
                 <<(limbs[k] * w + carry) % Limb>> \o acc)

\* w * f for a positive integer w (converted exactly) and a float f
FMulInt(w, f) ==
    LET limbs == BitsToLimbs(Zeros(LimbBits - (Prec % LimbBits)) \o f.m)
        p == StripZeros(MulStep(limbs, Len(limbs), w, 0, <<>>))
    IN RoundNearestEven(p, FALSE, f.e + (Len(p) - Prec))

LexLess(x, y) ==
    \E i \in 1..Len(x) : x[i] < y[i] /\ \A j \in 1..(i - 1) : x[j] = y[j]

FLess(f, g) == f.e < g.e \/ (f.e = g.e /\ LexLess(f.m, g.m))

\* min taken for max
FMin_Max(f, g) == IF FLess(g, f) THEN f ELSE g

\* Python min(f, g): g only if g < f
FMin(f, g) == IF FLess(g, f) THEN g ELSE f

\* int(f): truncation toward zero of a positive float
FInt(f) == IF f.e < 0 THEN 0 ELSE BitsToInt(f.m, f.e + 1)

\* ------------------------------------------------------------------------
\* resize_max_res: the size (new_width, new_height) requested from img.resize
\* ------------------------------------------------------------------------
resize_max_res(original_width, original_height, max_edge_resolution) ==
    LET downscale_factor == FMin(FDiv(max_edge_resolution, original_width),
                                 FDiv(max_edge_resolution, original_height))
        new_width == FInt(FMulInt(original_width, downscale_factor))
        new_height == FInt(FMulInt(original_height, downscale_factor))
    IN <<new_width, new_height>>

\* ------------------------------------------------------------------------
\* _find_batch_size
\* ------------------------------------------------------------------------
bs_search_table == <<
    [res |-> 768,  total_vram |-> 79, bs |-> 35, dtype |-> "float32"],
    [res |-> 1024, total_vram |-> 79, bs |-> 20, dtype |-> "float32"],
    [res |-> 768,  total_vram |-> 39, bs |-> 15, dtype |-> "float32"],
    [res |-> 1024, total_vram |-> 39, bs |-> 8,  dtype |-> "float32"],
    [res |-> 768,  total_vram |-> 39, bs |-> 30, dtype |-> "float16"],
    [res |-> 1024, total_vram |-> 39, bs |-> 15, dtype |-> "float16"],
    [res |-> 512,  total_vram |-> 23, bs |-> 20, dtype |-> "float32"],
    [res |-> 768,  total_vram |-> 23, bs |-> 7,  dtype |-> "float32"],
    [res |-> 1024, total_vram |-> 23, bs |-> 3,  dtype |-> "float32"],
    [res |-> 512,  total_vram |-> 23, bs |-> 40, dtype |-> "float16"],
    [res |-> 768,  total_vram |-> 23, bs |-> 18, dtype |-> "float16"],
    [res |-> 1024, total_vram |-> 23, bs |-> 10, dtype |-> "float16"],
    [res |-> 512,  total_vram |-> 10, bs |-> 5,  dtype |-> "float32"],
    [res |-> 768,  total_vram |-> 10, bs |-> 2,  dtype |-> "float32"],
    [res |-> 512,  total_vram |-> 10, bs |-> 10, dtype |-> "float16"],
    [res |-> 768,  total_vram |-> 10, bs |-> 5,  dtype |-> "float16"],
    [res |-> 1024, total_vram |-> 10, bs |-> 3,  dtype |-> "float16"] >>

\* the memory requirement sorted ascending instead of descending
SortKeyLess_AscVram(a, b) ==
    \/ a.res < b.res
    \/ a.res = b.res /\ a.total_vram < b.total_vram

\* the sort key (k["res"], -k["total_vram"]), compared as Python compares tuples
SortKeyLess(a, b) ==
    \/ a.res < b.res
    \/ a.res = b.res /\ (0 - a.total_vram) < (0 - b.total_vram)

\* sorted(): a stable sort, as an insertion sort over the first n rows
RECURSIVE SortedRows(_, _)
SortedRows(rows, n) ==
    IF n = 0 THEN <<>>
    ELSE LET t == SortedRows(rows, n - 1)
             x == rows[n]
             k == Cardinality({i \in 1..Len(t) : ~SortKeyLess(x, t[i])})
         IN SubSeq(t, 1, k) \o <<x>> \o SubSeq(t, k + 1, Len(t))

\* math.ceil(ensemble_size / 2)
CeilHalf(ensemble_size) == (ensemble_size + 1) \div 2

\* the clamp to the ensemble size left out
ClampBatchSize_NoUpper(bs, ensemble_size) ==
    IF bs > CeilHalf(ensemble_size) /\ bs < ensemble_size
    THEN CeilHalf(ensemble_size)
    ELSE bs

\* the clamp to half the ensemble size left out
ClampBatchSize_NoHalf(bs, ensemble_size) ==
    IF bs > ensemble_size THEN ensemble_size ELSE bs

\* the body of the loop for the entry that matches (lines 457-462)
ClampBatchSize(bs, ensemble_size) ==
    IF bs > ensemble_size THEN ensemble_size
    ELSE IF bs > CeilHalf(ensemble_size) /\ bs < ensemble_size
         THEN CeilHalf(ensemble_size)
    ELSE bs

RECURSIVE ScanRows(_, _, _, _, _)
\* the for loop over the sorted rows, from row i on; total_vram is the device
\* memory in whole GiB (the thresholds it is compared with are whole numbers)
ScanRows(rows, i, ensemble_size, input_res, total_vram) ==
    IF i > Len(rows) THEN 1
    ELSE IF input_res <= rows[i].res /\ total_vram >= rows[i].total_vram
         THEN ClampBatchSize(rows[i].bs, ensemble_size)
    ELSE ScanRows(rows, i + 1, ensemble_size, input_res, total_vram)

_find_batch_size(ensemble_size, input_res, dtype, cuda_available, total_vram) ==
    IF ~cuda_available THEN 1
    ELSE LET filtered_bs_search_table ==
                 SelectSeq(bs_search_table, LAMBDA s : s.dtype = dtype)
         IN ScanRows(SortedRows(filtered_bs_search_table,
                                Len(filtered_bs_search_table)),
                     1, ensemble_size, input_res, total_vram)

\* the batch sizes the DataLoader produces for n samples: all of size bs except
\* possibly a smaller last one
LastBatchSize(n, bs) == IF n % bs = 0 THEN bs ELSE n % bs
NumBatches(n, bs) == (n + bs - 1) \div bs

\* ------------------------------------------------------------------------
\* Tensor elements.  An element is a finite rational n/d in lowest terms, a
\* NaN, an infinity, or (after nan_to_num) the largest finite float32.
\* ------------------------------------------------------------------------
RECURSIVE Gcd(_, _)
Gcd(a, b) == IF b = 0 THEN a ELSE Gcd(b, a % b)

Abs(x) == IF x < 0 THEN 0 - x ELSE x

Fin(n, d) ==
    LET g == Gcd(Abs(n), d)
    IN [k |-> "fin", n |-> n \div g, d |-> d \div g]

NaN == [k |-> "nan", n |-> 0, d |-> 1]
PosInf == [k |-> "inf", n |-> 1, d |-> 1]
NegInf == [k |-> "inf", n |-> 0 - 1, d |-> 1]
FloatMax == [k |-> "max", n |-> 1, d |-> 1]
FloatMin == [k |-> "max", n |-> 0 - 1, d |-> 1]

IsFin(v) == v.k = "fin"

Add(a, b) == Fin(a.n * b.d + b.n * a.d, a.d * b.d)
LessEq(a, b) == a.n * b.d <= b.n * a.d

\* ------------------------------------------------------------------------
\* _ensemble_brdfs: brdf_preds.mean(dim=0, keepdim=True).  A stack is the
\* sequence of its samples along the batch dimension; the result is a stack
\* of one sample.  Samples are finite or NaN (single_infer clips them); the
\* mean is the exact quotient of the sum by the number of samples.
\* ------------------------------------------------------------------------
RECURSIVE SumStack(_, _)
SumStack(stack, n) ==
    IF n = 0 THEN Fin(0, 1) ELSE Add(SumStack(stack, n - 1), stack[n])

\* the sum not divided by the number of samples
Mean_Sum(stack) ==
    IF \E i \in 1..Len(stack) : ~IsFin(stack[i]) THEN NaN
    ELSE SumStack(stack, Len(stack))

Mean(stack) ==
    IF \E i \in 1..Len(stack) : ~IsFin(stack[i]) THEN NaN
    ELSE LET t == SumStack(stack, Len(stack))
         IN Fin(t.n, t.d * Len(stack))

_ensemble_brdfs(brdf_preds) == << Mean(brdf_preds) >>

\* ------------------------------------------------------------------------
\* Colorize (lines 240-242), per element
\* ------------------------------------------------------------------------
\* nan_to_num left out
nan_to_num_Skipped(v) == v

\* np.nan_to_num(albedo_pred, nan=0.0): NaN becomes 0.0, the infinities become
\* the largest and the smallest finite float32
nan_to_num(v) ==
    IF v.k = "nan" THEN Fin(0, 1)
    ELSE IF v.k = "inf" THEN (IF v.n > 0 THEN FloatMax ELSE FloatMin)
    ELSE v

\* albedo_pred + 1 / 2: the division binds tighter than the addition
PlusOneOverTwo(v) == IF IsFin(v) THEN Add(v, Fin(1, 2)) ELSE v

\* np.clip(x, 0, 1) of a finite element
Clip01(v) ==
    IF ~IsFin(v) THEN (IF v.n > 0 THEN Fin(1, 1) ELSE Fin(0, 1))
    ELSE IF LessEq(v, Fin(0, 1)) THEN Fin(0, 1)
    ELSE IF LessEq(Fin(1, 1), v) THEN Fin(1, 1)
    ELSE v

\* (albedo_color * 255).astype(np.uint8) of an element of [0, 1]
ToUint8(v) == (255 * v.n) \div v.d

albedo_color_of(albedo_pred) == ToUint8(Clip01(PlusOneOverTwo(nan_to_num(albedo_pred))))

\* ------------------------------------------------------------------------
\* State
\* ------------------------------------------------------------------------
VARIABLES
    modules,            \* the modules registered at construction (never reassigned)
    env,                \* the device: accelerator present, its memory, self.dtype
    empty_text_embed,   \* self.empty_text_embed: <<>> is None, <<dim>> a tensor
    scheduler_steps,    \* state of the external scheduler object (set_timesteps)
    encode_calls,       \* history: executions of _encode_empty_text
    embed_reads,        \* history: the set of embeddings read at line 310
    ncalls,             \* history: calls completed on this pipeline object
    pc,                 \* position of the running call
    args,               \* the arguments of the running call
    rgb_norm,           \* <<width, height>> of rgb_norm; <<0, 0>> before it is set
    bs,                 \* _bs
    pos,                \* number of replicas the loader has handed out
    brdf_pred_ls,       \* the predictions of the batches, one sequence per batch
    albedo_pred,        \* the prediction as a stack of samples
    albedo_size,        \* <<width, height>> of albedo_pred
    out,                \* <<>> or <<MaterialOutput>>
    probe               \* the function applied by the function-level specifications

pipeline == <<modules, env, empty_text_embed, scheduler_steps, encode_calls,
              embed_reads, ncalls>>
frame == <<pc, args, rgb_norm, bs, pos, brdf_pred_ls, albedo_pred, albedo_size, out>>
vars == <<modules, env, empty_text_embed, scheduler_steps, encode_calls,
          embed_reads, ncalls, pc, args, rgb_norm, bs, pos, brdf_pred_ls,
          albedo_pred, albedo_size, out, probe>>

\* ------------------------------------------------------------------------
\* Inputs
\* ------------------------------------------------------------------------
Dtypes == {"float32", "float16", "bfloat16"}
TextDims == {1024, 768}
Envs == { [cuda |-> FALSE, total_vram |-> 0,  dtype |-> "float32"],
          [cuda |-> TRUE,  total_vram |-> 11, dtype |-> "float32"],
          [cuda |-> TRUE,  total_vram |-> 24, dtype |-> "float16"] }

\* input_image: a PIL image or a tensor; rank is the tensor's number of
\* dimensions after squeeze(0), in_range whether its values lie in [-1, 1]
InputImages ==
    { [kind |-> "pil", w |-> sz[1], h |-> sz[2], rank |-> 3, in_range |-> TRUE] :
        sz \in {<<11, 11>>, <<16, 1>>, <<1024, 512>>} }
    \cup { [kind |-> "tensor", w |-> 800, h |-> 600, rank |-> 3, in_range |-> TRUE],
           [kind |-> "tensor", w |-> 8, h |-> 8, rank |-> 3, in_range |-> FALSE],
           [kind |-> "tensor", w |-> 8, h |-> 8, rank |-> 4, in_range |-> TRUE] }

CallArgs ==
    [ input_image : InputImages,
      processing_res : {0 - 1, 0, 15, 768},
      denoising_steps : {0, 1},
      ensemble_size : 0..MaxCallEnsemble,
      batch_size : {0, 2},
      match_input_res : BOOLEAN ]

NoArgs == [ input_image |-> [kind |-> "none", w |-> 0, h |-> 0, rank |-> 0,
                             in_range |-> TRUE],
            processing_res |-> 0, denoising_steps |-> 0, ensemble_size |-> 0,
            batch_size |-> 0, match_input_res |-> FALSE ]

\* the samples single_infer can return: it clips them to [-1, 1]; a NaN of the
\* network stays a NaN
PredVals == { Fin(0 - 1, 1), Fin(1, 2), NaN }

NoProbe == [fn |-> "none", in |-> <<>>, ret |-> <<>>]

\* ------------------------------------------------------------------------
\* Construction
\* ------------------------------------------------------------------------
IdleFrame ==
    /\ pc = "idle"
    /\ args = NoArgs
    /\ rgb_norm = <<0, 0>>
    /\ bs = 0
    /\ pos = 0
    /\ brdf_pred_ls = <<>>
    /\ albedo_pred = <<>>
    /\ albedo_size = <<0, 0>>
    /\ out = <<>>

Constructed ==
    /\ modules \in [text_encoder : TextDims]
    /\ env \in Envs
    /\ empty_text_embed = <<>>
    /\ scheduler_steps = 0
    /\ encode_calls = 0
    /\ embed_reads = {}
    /\ ncalls = 0
    /\ IdleFrame

Init == Constructed /\ probe = NoProbe

\* ------------------------------------------------------------------------
\* single_infer and _encode_empty_text
\* ------------------------------------------------------------------------
\* _encode_empty_text assigns the embedding, then asserts its last dimension
_encode_empty_text ==
    /\ empty_text_embed' = <<modules.text_encoder>>
    /\ encode_calls' = encode_calls + 1

EmbedDimOk(embed) == embed[1] = 1024

\* the embedding encoded on every call, cached or not
single_infer_AlwaysEncode(rank, num_inference_steps) ==
    /\ scheduler_steps' = num_inference_steps
    /\ IF rank # 4
       THEN UNCHANGED <<empty_text_embed, encode_calls, embed_reads>>
       ELSE /\ _encode_empty_text
            /\ embed_reads' = IF EmbedDimOk(empty_text_embed')
                              THEN embed_reads \cup {empty_text_embed'}
                              ELSE embed_reads

\* the state changes of single_infer(rgb_in, num_inference_steps, ...) for an
\* rgb_in of the given rank: set_timesteps, _encode_rgb (which asserts rank 4),
\* then the lazily computed embedding and its read at line 310
single_infer(rank, num_inference_steps) ==
    /\ scheduler_steps' = num_inference_steps
    /\ IF rank # 4
       THEN UNCHANGED <<empty_text_embed, encode_calls, embed_reads>>
       ELSE IF empty_text_embed = <<>>
            THEN /\ _encode_empty_text
                 /\ embed_reads' = IF EmbedDimOk(empty_text_embed')
                                   THEN embed_reads \cup {empty_text_embed'}
                                   ELSE embed_reads
            ELSE /\ UNCHANGED <<empty_text_embed, encode_calls>>
                 /\ embed_reads' = embed_reads \cup {empty_text_embed}

\* single_infer returns a prediction (no assertion of it fails)
single_infer_returns(rank) ==
    /\ rank = 4
    /\ empty_text_embed = <<>> => EmbedDimOk(<<modules.text_encoder>>)

\* ------------------------------------------------------------------------
\* __call__
\* ------------------------------------------------------------------------
Max(a, b) == IF a >= b THEN a ELSE b
Min(a, b) == IF a <= b THEN a ELSE b

\* the assertion on processing_res left out
PreconditionsHold_NoRes(a) ==
    /\ a.denoising_steps >= 1
    /\ a.ensemble_size >= 1

\* the assertions of lines 146-150
PreconditionsHold(a) ==
    /\ a.processing_res >= 0
    /\ a.denoising_steps >= 1
    /\ a.ensemble_size >= 1

\* lines 143-150: the call starts; a failed assertion ends it at once
Call(a) ==
    /\ pc = "idle"
    /\ ncalls < MaxCalls
    /\ args' = a
    /\ pc' = IF PreconditionsHold(a) THEN "preprocess" ELSE "failed"
    /\ UNCHANGED <<rgb_norm, bs, pos, brdf_pred_ls, albedo_pred, albedo_size, out>>
    /\ UNCHANGED <<pipeline, probe>>

\* the size of rgb_norm (lines 155-172)
PreprocessedSize(a) ==
    IF a.input_image.kind = "pil" /\ a.processing_res > 0
    THEN resize_max_res(a.input_image.w, a.input_image.h, a.processing_res)
    ELSE <<a.input_image.w, a.input_image.h>>

\* lines 152-176: an image with an empty edge cannot be resized or normalized;
\* a tensor must have three dimensions and values in [-1, 1]
PreprocessOk(a) ==
    /\ PreprocessedSize(a)[1] > 0
    /\ PreprocessedSize(a)[2] > 0
    /\ a.input_image.rank = 3
    /\ a.input_image.in_range

Preprocess ==
    /\ pc = "preprocess"
    /\ IF PreprocessOk(args)
       THEN /\ rgb_norm' = PreprocessedSize(args)
            /\ pc' = "batching"
       ELSE /\ pc' = "failed"
            /\ UNCHANGED rgb_norm
    /\ UNCHANGED <<args, bs, pos, brdf_pred_ls, albedo_pred, albedo_size, out>>
    /\ UNCHANGED <<pipeline, probe>>

\* lines 180-191: the replicas and the batch size of the loader
Batching ==
    /\ pc = "batching"
    /\ bs' = IF args.batch_size > 0 THEN args.batch_size
             ELSE _find_batch_size(args.ensemble_size,
                                   Max(rgb_norm[1], rgb_norm[2]),
                                   env.dtype, env.cuda, env.total_vram)
    /\ pos' = 0
    /\ brdf_pred_ls' = <<>>
    /\ pc' = "infer"
    /\ UNCHANGED <<args, rgb_norm, albedo_pred, albedo_size, out>>
    /\ UNCHANGED <<pipeline, probe>>

\* the last batch filled up to the batch size although fewer replicas remain
InferBatch_FullLast ==
    /\ pc = "infer"
    /\ pos < args.ensemble_size
    /\ single_infer(4, args.denoising_steps)
    /\ IF single_infer_returns(4)
       THEN /\ \E brdf_pred_raw \in [1..bs -> PredVals] :
                  brdf_pred_ls' = Append(brdf_pred_ls, brdf_pred_raw)
            /\ pos' = pos + bs
            /\ pc' = "infer"
       ELSE /\ pc' = "failed"
            /\ UNCHANGED <<pos, brdf_pred_ls>>
    /\ UNCHANGED <<modules, env, ncalls>>
    /\ UNCHANGED <<args, rgb_norm, bs, albedo_pred, albedo_size, out, probe>>

\* lines 200-207: one iteration of the loop over the loader
InferBatch ==
    /\ pc = "infer"
    /\ pos < args.ensemble_size
    /\ LET n == Min(bs, args.ensemble_size - pos)
       IN /\ single_infer(4, args.denoising_steps)
          /\ IF single_infer_returns(4)
             THEN /\ \E brdf_pred_raw \in [1..n -> PredVals] :
                        brdf_pred_ls' = Append(brdf_pred_ls, brdf_pred_raw)
                  /\ pos' = pos + n
                  /\ pc' = "infer"
             ELSE /\ pc' = "failed"
                  /\ UNCHANGED <<pos, brdf_pred_ls>>
    /\ UNCHANGED <<modules, env, ncalls>>
    /\ UNCHANGED <<args, rgb_norm, bs, albedo_pred, albedo_size, out, probe>>

RECURSIVE Concat(_, _)
\* torch.concat of the first k batches
Concat(ls, k) == IF k = 0 THEN <<>> ELSE Concat(ls, k - 1) \o ls[k]

\* lines 208-221: the loop is over; concatenate and ensemble
Ensemble ==
    /\ pc = "infer"
    /\ pos >= args.ensemble_size
    /\ LET brdf_preds == Concat(brdf_pred_ls, Len(brdf_pred_ls))
       IN albedo_pred' = IF args.ensemble_size > 1
                         THEN _ensemble_brdfs(brdf_preds)
                         ELSE brdf_preds
    /\ albedo_size' = rgb_norm
    /\ pc' = "resize_back"
    /\ UNCHANGED <<args, rgb_norm, bs, pos, brdf_pred_ls, out>>
    /\ UNCHANGED <<pipeline, probe>>

\* lines 223-226: input_size is input_image.size, a pair for a PIL image and
\* a bound method for a tensor, which input_size[::-1] cannot slice.  The
\* interpolation is external: a resize to another size may yield any sample.
ResizeBack ==
    /\ pc = "resize_back"
    /\ IF ~args.match_input_res
       THEN /\ pc' = "colorize"
            /\ UNCHANGED <<albedo_pred, albedo_size>>
       ELSE IF args.input_image.kind = "tensor"
       THEN /\ pc' = "failed"
            /\ UNCHANGED <<albedo_pred, albedo_size>>
       ELSE /\ pc' = "colorize"
            /\ albedo_size' = <<args.input_image.w, args.input_image.h>>
            /\ IF albedo_size' = albedo_size
               THEN UNCHANGED albedo_pred
               ELSE \E v \in PredVals : albedo_pred' = <<v>>
    /\ UNCHANGED <<args, rgb_norm, bs, pos, brdf_pred_ls, out>>
    /\ UNCHANGED <<pipeline, probe>>

\* lines 229-251: colorize and build the result
Colorize ==
    /\ pc = "colorize"
    /\ out' = << [ albedo_np |-> nan_to_num(albedo_pred[1]),
                   albedo_pil |-> albedo_color_of(albedo_pred[1]),
                   size |-> albedo_size,
                   uncertainty |-> "None" ] >>
    /\ pc' = "done"
    /\ UNCHANGED <<args, rgb_norm, bs, pos, brdf_pred_ls, albedo_pred, albedo_size>>
    /\ UNCHANGED <<pipeline, probe>>

\* the call is over (it returned or raised); the frame is dropped
Return ==
    /\ pc \in {"done", "failed"}
    /\ pc' = "idle"
    /\ args' = NoArgs
    /\ rgb_norm' = <<0, 0>>
    /\ bs' = 0
    /\ pos' = 0
    /\ brdf_pred_ls' = <<>>
    /\ albedo_pred' = <<>>
    /\ albedo_size' = <<0, 0>>
    /\ out' = <<>>
    /\ ncalls' = ncalls + 1
    /\ UNCHANGED <<modules, env, empty_text_embed, scheduler_steps, encode_calls,
                   embed_reads, probe>>

\* single_infer called directly on the pipeline object, outside __call__
DirectSingleInfer(rank, num_inference_steps) ==
    /\ pc = "idle"
    /\ ncalls < MaxCalls
    /\ single_infer(rank, num_inference_steps)
    /\ ncalls' = ncalls + 1
    /\ UNCHANGED <<modules, env, frame, probe>>

Next ==
    \/ \E a \in CallArgs : Call(a)
    \/ Preprocess
    \/ Batching
    \/ InferBatch
    \/ Ensemble
    \/ ResizeBack
    \/ Colorize
    \/ Return
    \/ \E rank \in {3, 4} : DirectSingleInfer(rank, 1)

Spec == Init /\ [][Next]_vars

\* ------------------------------------------------------------------------
\* Function-level specifications: Init draws the inputs of one function, the
\* action applies it.  The pipeline object stays as constructed.
\* ------------------------------------------------------------------------
Untouched ==
    /\ Constructed
    /\ modules.text_encoder = 1024
    /\ ~env.cuda

Apply(fn, result) ==
    /\ probe.fn = fn
    /\ probe.ret = <<>>
    /\ probe' = [probe EXCEPT !.ret = <<result>>]
    /\ UNCHANGED <<pipeline, frame>>

\* resize_max_res(img, max_edge_resolution) on an image of size w x h
InitResize ==
    /\ Untouched
    /\ \E w \in 1..MaxEdge, h \in 1..MaxEdge, m \in 1..MaxEdge :
          probe = [fn |-> "resize_max_res", in |-> <<w, h, m>>, ret |-> <<>>]

ApplyResize ==
    Apply("resize_max_res", resize_max_res(probe.in[1], probe.in[2], probe.in[3]))

SpecResize == InitResize /\ [][ApplyResize]_vars

\* _find_batch_size(ensemble_size, input_res, dtype) on a device
InputResolutions == {1, 512, 513, 768, 769, 1024, 1025}
DeviceMemories == {0, 9, 10, 22, 23, 24, 38, 39, 40, 78, 79, 80}

InitBatch ==
    /\ Untouched
    /\ \E e \in 1..MaxEnsemble, r \in InputResolutions, t \in Dtypes,
          c \in BOOLEAN, v \in DeviceMemories :
          probe = [fn |-> "_find_batch_size",
                   in |-> [ensemble_size |-> e, input_res |-> r, dtype |-> t,
                           cuda |-> c, total_vram |-> v],
                   ret |-> <<>>]

ApplyBatch ==
    Apply("_find_batch_size",
          _find_batch_size(probe.in.ensemble_size, probe.in.input_res,
                           probe.in.dtype, probe.in.cuda, probe.in.total_vram))

SpecBatch == InitBatch /\ [][ApplyBatch]_vars

\* the colorize step on two elements x, y of the prediction
ColorVals ==
    {Fin(k, ColorDen) : k \in (0 - MaxColorNum)..MaxColorNum}
        \cup {NaN, PosInf, NegInf}

InitColor ==
    /\ Untouched
    /\ \E x \in ColorVals, y \in ColorVals :
          probe = [fn |-> "colorize", in |-> <<x, y>>, ret |-> <<>>]

ApplyColor ==
    Apply("colorize",
          [ albedo_np |-> <<nan_to_num(probe.in[1]), nan_to_num(probe.in[2])>>,
            albedo_color |-> <<albedo_color_of(probe.in[1]),
                               albedo_color_of(probe.in[2])>> ])

SpecColor == InitColor /\ [][ApplyColor]_vars

\* _ensemble_brdfs on a stack of 1..MaxStack samples, and again on its result
StackVals == { Fin(0 - 1, 1), Fin(0 - 1, 3), Fin(0, 1), Fin(1, 2), Fin(1, 1), NaN }

InitEnsemble ==
    /\ Untouched
    /\ \E n \in 1..MaxStack : \E stack \in [1..n -> StackVals] :
          probe = [fn |-> "_ensemble_brdfs", in |-> stack, ret |-> <<>>]

ApplyEnsemble == Apply("_ensemble_brdfs", _ensemble_brdfs(probe.in))

ApplyEnsembleAgain ==
    /\ probe.fn = "_ensemble_brdfs"
    /\ Len(probe.ret) = 1
    /\ probe' = [probe EXCEPT !.ret = Append(@, _ensemble_brdfs(probe.ret[1]))]
    /\ UNCHANGED <<pipeline, frame>>

NextEnsemble == ApplyEnsemble \/ ApplyEnsembleAgain

SpecEnsemble == InitEnsemble /\ [][NextEnsemble]_vars

\* ------------------------------------------------------------------------
\* Properties
\* ------------------------------------------------------------------------
Applied(fn) == probe.fn = fn /\ probe.ret # <<>>

\* C1: the batch size returned by _find_batch_size is at least 1 and at most
\* ensemble_size, for every ensemble size, resolution, device memory and
\* precision, with or without an accelerator and a matching table entry.
C1_BatchSizeWithinEnsemble ==
    Applied("_find_batch_size") =>
        /\ probe.ret[1] >= 1
        /\ probe.ret[1] <= probe.in.ensemble_size

\* the rows of the table that match an input, and the order they are scanned in
MatchingRows(in) ==
    { i \in 1..Len(bs_search_table) :
        /\ bs_search_table[i].dtype = in.dtype
        /\ bs_search_table[i].res >= in.input_res
        /\ bs_search_table[i].total_vram <= in.total_vram }

ScannedBefore(i, j) ==
    \/ bs_search_table[i].res < bs_search_table[j].res
    \/ /\ bs_search_table[i].res = bs_search_table[j].res
       /\ bs_search_table[i].total_vram > bs_search_table[j].total_vram

FirstMatch(in) ==
    CHOOSE i \in MatchingRows(in) :
        \A j \in MatchingRows(in) \ {i} : ScannedBefore(i, j)

Selected(in) == in.cuda /\ MatchingRows(in) # {}

\* a state in which the entry selected is clamped to the ensemble size
C1_Witness ==
    /\ Applied("_find_batch_size")
    /\ Selected(probe.in)
    /\ bs_search_table[FirstMatch(probe.in)].bs > probe.in.ensemble_size
    /\ probe.in.ensemble_size > 1
    /\ probe.ret[1] = probe.in.ensemble_size

\* C2 as stated: every non-finite element of the prediction is rendered as the
\* 8-bit value 0.
C2_NonFiniteRendersZero ==
    Applied("colorize") /\ ~IsFin(probe.in[1]) => probe.ret[1].albedo_color[1] = 0

\* C2 as amended: a NaN is replaced by 0.0 in the numeric prediction and
\* rendered as 127, +infinity is rendered as 255 and -infinity as 0; every
\* rendered value is an 8-bit value and no NaN or infinity is left in the
\* numeric prediction.
C2_NonFiniteRendered ==
    Applied("colorize") =>
        LET x == probe.in[1]
            np == probe.ret[1].albedo_np[1]
            c == probe.ret[1].albedo_color[1]
        IN /\ c \in 0..255
           /\ np.k \notin {"nan", "inf"}
           /\ x = NaN => np = Fin(0, 1) /\ c = 127
           /\ x = PosInf => c = 255
           /\ x = NegInf => c = 0

C2_Witness ==
    /\ Applied("colorize")
    /\ probe.in[1] = NaN
    /\ probe.ret[1].albedo_color[1] = 127

\* C3 as stated: a finite element x of [-1, 1] is rendered as
\* trunc(255 * (x + 1) / 2), and two elements x < y of [-1, 1] that differ by
\* at least 2/255 are not rendered as the same value.
InUnitRange(v) == IsFin(v) /\ LessEq(Fin(0 - 1, 1), v) /\ LessEq(v, Fin(1, 1))

C3_LinearRemap ==
    Applied("colorize") =>
        LET x == probe.in[1]
            y == probe.in[2]
            cx == probe.ret[1].albedo_color[1]
            cy == probe.ret[1].albedo_color[2]
        IN /\ InUnitRange(x) => cx = (255 * (x.n + x.d)) \div (2 * x.d)
           /\ InUnitRange(x) /\ InUnitRange(y)
                /\ 255 * (y.n * x.d - x.n * y.d) >= 2 * x.d * y.d
              => cx # cy

\* C4: a call with processing_res < 0, denoising_steps < 1 or ensemble_size < 1
\* fails at once: it never preprocesses the image, dispatches no batch, leaves
\* the cached embedding as it was and produces no result.
InvalidCall(a) ==
    /\ a # NoArgs
    /\ a.processing_res < 0 \/ a.denoising_steps < 1 \/ a.ensemble_size < 1

C4_InvalidCallFailsEarly ==
    [][ InvalidCall(args') \/ InvalidCall(args) =>
          /\ pc' \in {"failed", "idle"}
          /\ empty_text_embed' = empty_text_embed
          /\ encode_calls' = encode_calls
          /\ embed_reads' = embed_reads
          /\ rgb_norm' = <<0, 0>>
          /\ pos' = 0
          /\ brdf_pred_ls' = <<>>
          /\ out' = <<>> ]_vars

\* an invalid call has failed on a pipeline whose embedding is cached
C4_Witness ==
    /\ pc = "failed"
    /\ args.processing_res < 0
    /\ empty_text_embed # <<>>
    /\ out = <<>>

C6_ExactResize ==
    Applied("resize_max_res") =>
        LET w == probe.in[1]
            h == probe.in[2]
            m == probe.in[3]
            nw == probe.ret[1][1]
            nh == probe.ret[1][2]
        IN /\ nw = (w * m) \div Max(w, h)
           /\ nh = (h * m) \div Max(w, h)
           /\ Max(nw, nh) = m
           /\ Abs(Min(nw, nh) * Max(w, h) - Min(w, h) * m) <= Max(w, h)

\* C6 as amended: each edge of the requested size is floor(edge * s) or one
\* less; the longer edge is M or M - 1, no edge exceeds M, and the shorter
\* edge is within one pixel of shorter_in * M / longer_in.
C6_ResizeWithinOnePixel ==
    Applied("resize_max_res") =>
        LET w == probe.in[1]
            h == probe.in[2]
            m == probe.in[3]
            nw == probe.ret[1][1]
            nh == probe.ret[1][2]
        IN /\ nw \in {((w * m) \div Max(w, h)) - 1, (w * m) \div Max(w, h)}
           /\ nh \in {((h * m) \div Max(w, h)) - 1, (h * m) \div Max(w, h)}
           /\ Max(nw, nh) \in {m - 1, m}
           /\ nw <= m /\ nh <= m
           /\ Abs(Min(nw, nh) * Max(w, h) - Min(w, h) * m) <= Max(w, h)

\* the longer edge of the result is one pixel short of the maximum
C6_Witness ==
    /\ Applied("resize_max_res")
    /\ probe.in[1] > probe.in[2]
    /\ probe.ret[1][1] = probe.in[3] - 1
    /\ probe.ret[1][2] > 0

\* C7 as stated: for a PIL image and for a tensor, once the image is
\* preprocessed its longer edge is at most processing_res when
\* processing_res > 0, and its size is the input's when processing_res = 0.
C7_ResolutionNormalizerApplied ==
    pc \in {"batching", "infer", "resize_back", "colorize", "done"} =>
        /\ args.processing_res > 0
             => Max(rgb_norm[1], rgb_norm[2]) <= args.processing_res
        /\ args.processing_res = 0
             => rgb_norm = <<args.input_image.w, args.input_image.h>>

\* C8 as stated: with the automatic batch size, if ensemble_size >= 2 and the
\* returned batch size is greater than 1, the last batch is not a single sample.
C8_NoSingletonBatch ==
    Applied("_find_batch_size") /\ probe.in.ensemble_size >= 2 /\ probe.ret[1] > 1
        => LastBatchSize(probe.in.ensemble_size, probe.ret[1]) # 1

\* C8 as amended: if ensemble_size >= 2 and the suggested size of the selected
\* entry is greater than ceil(ensemble_size / 2), the replicas go into at most
\* two batches and the last batch is not a single sample.
C8_NoSingletonBatchWhenClamped ==
    /\ Applied("_find_batch_size")
    /\ probe.in.ensemble_size >= 2
    /\ Selected(probe.in)
    /\ bs_search_table[FirstMatch(probe.in)].bs > CeilHalf(probe.in.ensemble_size)
    => /\ NumBatches(probe.in.ensemble_size, probe.ret[1]) <= 2
       /\ LastBatchSize(probe.in.ensemble_size, probe.ret[1]) # 1

\* the suggested size is clamped to half an odd ensemble size
C8_Witness ==
    /\ Applied("_find_batch_size")
    /\ Selected(probe.in)
    /\ probe.in.ensemble_size = 9
    /\ bs_search_table[FirstMatch(probe.in)].bs = 8
    /\ probe.ret[1] = 5

\* C9: with an accelerator, the result is based on the first matching entry of
\* the rows of the precision in the order (res ascending, total_vram
\* descending): its size if that is at most ceil(ensemble_size / 2),
\* ceil(ensemble_size / 2) if it lies strictly between that and ensemble_size,
\* ensemble_size otherwise; without accelerator or matching entry it is 1.
C9_FirstMatchingEntry ==
    Applied("_find_batch_size") =>
        LET in == probe.in
            half == (in.ensemble_size + 1) \div 2
            suggested == bs_search_table[FirstMatch(in)].bs
        IN probe.ret[1] =
             IF ~in.cuda \/ MatchingRows(in) = {} THEN 1
             ELSE IF suggested <= half THEN suggested
             ELSE IF suggested < in.ensemble_size THEN half
             ELSE in.ensemble_size

\* several entries match and the one selected is not the first of the table
C9_Witness ==
    /\ Applied("_find_batch_size")
    /\ Selected(probe.in)
    /\ \E j \in MatchingRows(probe.in) : j < FirstMatch(probe.in)
    /\ \E j \in MatchingRows(probe.in) :
          /\ bs_search_table[j].res = bs_search_table[FirstMatch(probe.in)].res
          /\ j # FirstMatch(probe.in)
    /\ probe.ret[1] = bs_search_table[FirstMatch(probe.in)].bs

\* C10: the empty-text embedding is absent until it is computed, is computed
\* at most once, by a single-pass prediction, and is never changed afterwards;
\* every single-pass prediction reads that one value, and no module of the
\* pipeline object is reassigned.
C10_EmbeddingWriteOnce ==
    [][ /\ (encode_calls = 0) <=> (empty_text_embed = <<>>)
        /\ empty_text_embed # <<>> => empty_text_embed' = empty_text_embed
        /\ encode_calls' <= 1
        /\ encode_calls' # encode_calls => pc \in {"infer", "idle"} /\ args' = args
        /\ embed_reads' \subseteq {empty_text_embed'}
        /\ modules' = modules
        /\ env' = env ]_vars

\* a second batch of a call has read the embedding the first one computed
C10_Witness ==
    /\ pc = "infer"
    /\ Len(brdf_pred_ls) >= 2
    /\ encode_calls = 1
    /\ embed_reads = {empty_text_embed}

\* C11: with ensemble_size E and effective batch size b (automatic or given,
\* possibly larger than E), a call runs the single-pass predictor on one batch
\* after the other, in replica order, every batch of b replicas except a
\* smaller last one; when ensembling starts the predictor has run exactly
\* ceil(E / b) times and exactly E predictions, one per replica, are collected.
C11_BatchesSequentialAndComplete ==
    [][ LET E == args'.ensemble_size
            b == bs'
            ls == brdf_pred_ls'
        IN /\ pc' \in {"infer", "resize_back", "colorize", "done"} =>
                /\ b >= 1
                /\ pos' <= E
                /\ pos' = Len(Concat(ls, Len(ls)))
                /\ \A k \in 1..Len(ls) :
                      /\ Len(ls[k]) \in 1..b
                      /\ (k < Len(ls) \/ pos' < E) => Len(ls[k]) = b
           /\ pc' \in {"resize_back", "colorize", "done"} =>
                /\ pos' = E
                /\ Len(ls) = (E + b - 1) \div b
           /\ pc = "infer" /\ ls # brdf_pred_ls =>
                /\ Len(ls) = Len(brdf_pred_ls) + 1
                /\ SubSeq(ls, 1, Len(brdf_pred_ls)) = brdf_pred_ls
                /\ pos' = pos + Len(ls[Len(ls)])
                /\ pc' = "infer"
                /\ albedo_pred' = <<>>
           /\ pc = "infer" /\ pc' = "resize_back" =>
                /\ pos = E
                /\ ls = brdf_pred_ls
                /\ Len(albedo_pred') = 1 ]_vars

\* ensembling has started after two batches, the last one smaller
C11_Witness ==
    /\ pc = "resize_back"
    /\ args.ensemble_size = 3
    /\ bs = 2
    /\ Len(brdf_pred_ls) = 2
    /\ Len(brdf_pred_ls[2]) = 1

====
